---------------------------- MODULE Spec2Model ----------------------------
(***************************************************************************)
(* Evalyn HR-automation backend: the application / screening / interview   *)
(* workflow of src/app (FastAPI routes and services) as a state machine.   *)
(*                                                                         *)
(* The relational store is the shared state (applications, interviews).   *)
(* A request that commits more than once, or that awaits between a read    *)
(* and a write, is split at those points, so that other requests can       *)
(* interleave there; everything between two such points is one step.       *)
(*                                                                         *)
(* Rows are identified by their position in the table (the code draws a   *)
(* uuid).  Queries are read by the attribute they name: Application.job_id *)
(* and Application.jobId are the same column, as are Interview's           *)
(* application_id / applicationId and scheduled_at / scheduledAt; the      *)
(* keywords of a constructor call that name no column (linkedin_url,       *)
(* portfolio_url of Application) are left out.                             *)
(* A query without ORDER BY on a persisted column returns its rows in any  *)
(* order.                                                                  *)
(***************************************************************************)
EXTENDS Integers, Sequences, FiniteSets, TLC

(***************************************************************************)
(* Bounds of the model.                                                    *)
(***************************************************************************)
\* Rows of JobApplication.
MaxApps == 2
\* Requests started in one behaviour.
MaxRequests == 3
\* Rows of Interview.
MaxInterviews == 2

(***************************************************************************)
(* Program constants.                                                      *)
(***************************************************************************)
CV_SCREENING_TOP_CANDIDATES == 10
MINIMUM_MATCH_SCORE == 75
INTERVIEW_DURATION_MINUTES == 60
INTERVIEW_GAP_MINUTES == 30

\* ApplicationStatus, in declaration order.
ApplicationStatus ==
    << "pending", "screening", "shortlisted", "round1_passed",
       "round2_scheduled", "round2_completed", "hired", "rejected" >>

valid_statuses == { ApplicationStatus[i] : i \in DOMAIN ApplicationStatus }

(***************************************************************************)
(* Input domains.                                                          *)
(***************************************************************************)
\* Rows of JobPost; the modelled requests neither create nor delete jobs.
Jobs == { "j1", "j2" }
\* Job ids a request may carry: the existing ones and one that does not exist.
JobIds == Jobs \cup { "j0" }
Emails == { "ann@x", "bob@x" }
\* Extensions of the uploaded CV file.
FileExts == { ".pdf", ".exe" }
\* top_n of a screen request; the default stands for an absent parameter.
TopNs == { -1, 0, 1, CV_SCREENING_TOP_CANDIDATES }
\* Scores a well-formed provider response carries.
ProviderScores == { 0, 75 }
\* Text the extractor returns: "" on every failure.
CvTexts == { "", "cv" }
\* What one generate_content call does: raises; returns a response without
\* text (reading response.text raises); returns text that is not JSON;
\* returns the JSON object with a score.
ProviderOutcomes ==
    { [ kind |-> k, score |-> 0 ] : k \in { "raise", "no_text", "bad_json" } }
    \cup { [ kind |-> "json", score |-> s ] : s \in ProviderScores }
\* Interview start times, in minutes.
StartTimes == { 540 }
\* New times of a rescheduled interview.
NewTimes == { 600 }
\* duration_minutes and gap_between_interviews_minutes of a bulk request.
Durations == { INTERVIEW_DURATION_MINUTES }
\* gap_between_interviews_minutes is any integer: the default and a negative one.
Gaps == { INTERVIEW_GAP_MINUTES, -30 }
\* rating of a completed interview.
Ratings == { 0, 3 }
\* new_status of a manual update.
NewStatuses == valid_statuses \cup { "bogus" }
\* Row ids a request may carry; 0 is the id of no row.
AppIds == 0..MaxApps
InterviewIds == 0..MaxInterviews

SubSlots == { 1, 2 }
RunSlots == { 1, 2 }

VARIABLES
    applications,     \* table JobApplication: sequence of rows
    interviews,       \* table Interview: sequence of rows
    sub,              \* submit_application requests in flight
    run,              \* screen_applications / run_full_hr_workflow calls in flight
    bulk,             \* the bulk-schedule request in flight
    shortlist_mails,  \* per application: shortlist notifications attempted
    screen_wrote,     \* per application: the statuses written by screening commits
                      \* since the row was created or manually updated
    last,             \* the request that completed last, and its answer
    nreq,             \* requests started so far
    scorer,           \* the call of a scorer in flight: analyze_cv_with_ai, analyze_cv
    review            \* the run_ai_review request in flight (src/app.py)

vars == << applications, interviews, sub, run, bulk, shortlist_mails, screen_wrote, last, nreq,
          scorer, review >>

(***************************************************************************)
(* Helpers.                                                                *)
(***************************************************************************)
Range(s) == { s[i] : i \in DOMAIN s }

Min(a, b) == IF a < b THEN a ELSE b

Max(a, b) == IF a > b THEN a ELSE b

\* The orders in which a query can return the rows S.
Orders(S) ==
    { p \in [1..Cardinality(S) -> S] : \A i, j \in 1..Cardinality(S) : p[i] = p[j] => i = j }

\* Python s[:n] and s[n:], for any integer n.
SliceEnd(n, len) == IF n >= 0 THEN Min(n, len) ELSE Max(len + n, 0)

Take(s, n) == SubSeq(s, 1, SliceEnd(n, Len(s)))

Drop(s, n) == SubSeq(s, SliceEnd(n, Len(s)) + 1, Len(s))

\* The rows ids of a table with their status set to st.
SetStatus(ids, st, table) ==
    [ i \in DOMAIN table |->
        IF i \in ids THEN [ table[i] EXCEPT !.status = st ] ELSE table[i] ]

\* The answer of a request: the operation, the job it named, the HTTP status
\* and what the status stands for.  The answer of a screening run also holds
\* screening_results (the applications in the order scored, and their scores)
\* and the applications returned; the answer of a notification holds the
\* counts of the sends that succeeded and failed.
Answer(op, job, code, detail) ==
    [ op |-> op, job |-> job, code |-> code, detail |-> detail,
      apps |-> << >>, scores |-> << >>, top |-> << >>, sent |-> 0, failed |-> 0 ]

\* The number of places of a sequence that hold v.
CountOf(s, v) == Cardinality({ i \in DOMAIN s : s[i] = v })

(***************************************************************************)
(* POST /applications/apply                                                *)
(***************************************************************************)
IdleSub == [ pc |-> "idle", job_id |-> "j0", email |-> "" ]

\* A duplicate check that looks at the pending applications only.
existing_pending(job_id, email) ==
    { i \in DOMAIN applications :
        /\ applications[i].jobId = job_id
        /\ applications[i].email = email
        /\ applications[i].status = "pending" }

\* The rows the duplicate check finds.
existing(job_id, email) ==
    { i \in DOMAIN applications :
        applications[i].jobId = job_id /\ applications[i].email = email }

\* Up to the await of the file content: job lookup, duplicate check, file type.
SubmitCheck(s, job_id, email, file_ext) ==
    /\ sub[s].pc = "idle"
    /\ UNCHANGED << scorer, review >>
    /\ \A q \in SubSlots : q < s => sub[q].pc # "idle"
    /\ nreq < MaxRequests
    /\ nreq' = nreq + 1
    /\ IF job_id \notin Jobs
         THEN /\ last' = Answer("apply", job_id, 404, "job not found")
              /\ sub' = sub
         ELSE IF existing(job_id, email) # {}
         THEN /\ last' = Answer("apply", job_id, 400, "already applied")
              /\ sub' = sub
         ELSE IF file_ext \notin { ".pdf", ".docx", ".doc" }
         THEN /\ last' = Answer("apply", job_id, 400, "file type")
              /\ sub' = sub
         ELSE /\ last' = last
              /\ sub' = [ sub EXCEPT ![s] = [ pc |-> "checked", job_id |-> job_id, email |-> email ] ]
    /\ UNCHANGED << screen_wrote, applications, interviews, run, bulk, shortlist_mails >>

\* From the file read to the commit: upload, db.add, db.commit.
SubmitInsert(s) ==
    /\ sub[s].pc = "checked"
    /\ UNCHANGED << scorer, review >>
    /\ Len(applications) < MaxApps
    /\ applications' = Append(applications,
            [ jobId |-> sub[s].job_id, email |-> sub[s].email, status |-> "pending" ])
    /\ shortlist_mails' = Append(shortlist_mails, 0)
    /\ screen_wrote' = Append(screen_wrote, {})
    /\ sub' = [ sub EXCEPT ![s] = IdleSub ]
    /\ last' = Answer("apply", sub[s].job_id, 201, "created")
    /\ UNCHANGED << interviews, run, bulk, nreq >>

(***************************************************************************)
(* AIScreeningAgent.analyze_cv and screen_applications, behind the screen  *)
(* routes and as step 1 of run_full_hr_workflow.                           *)
(***************************************************************************)
IdleRun ==
    [ pc |-> "idle", kind |-> "screen", job_id |-> "j0", applications |-> << >>,
      scores |-> << >>, shortlisted_apps |-> << >>, sent |-> << >>, steps |-> << >> ]

\* A new call takes the first free slot.
FirstFree(r) == run[r].pc = "idle" /\ \A q \in RunSlots : q < r => run[q].pc # "idle"

\* The analysis of one CV: the score, or the exception that leaves analyze_cv.
\* The except clause handles an exception of the provider call and of the
\* parse; it reads response.text itself whenever a response object exists.
analyze_cv(cv_text, resp) ==
    IF cv_text = "" THEN [ raised |-> FALSE, score |-> 0 ]
    ELSE IF resp.kind = "raise" THEN [ raised |-> FALSE, score |-> 0 ]
    ELSE IF resp.kind = "no_text" THEN [ raised |-> TRUE, score |-> 0 ]
    ELSE IF resp.kind = "bad_json" THEN [ raised |-> FALSE, score |-> 0 ]
    ELSE [ raised |-> FALSE, score |-> resp.score ]

\* A load of the pending applications of every job.
PendingOf_any_job(job_id) ==
    { i \in DOMAIN applications : applications[i].status = "pending" }

\* A load that leaves out the applications a running call has loaded.
PendingOf_unclaimed(job_id) ==
    { i \in DOMAIN applications :
        /\ applications[i].jobId = job_id
        /\ applications[i].status = "pending"
        /\ \A q \in RunSlots : run[q].pc = "idle" \/ i \notin Range(run[q].applications) }

\* A load that takes the rejected applications of the job with the pending.
PendingOf_or_rejected(job_id) ==
    { i \in DOMAIN applications :
        /\ applications[i].jobId = job_id
        /\ applications[i].status \in { "pending", "rejected" } }

\* The pending applications of a job.
PendingOf(job_id) ==
    { i \in DOMAIN applications :
        applications[i].jobId = job_id /\ applications[i].status = "pending" }

\* screening_results[app.id]["score"] of a loaded application.
ScoreOf(apps, scores, a) ==
    LET i == CHOOSE k \in DOMAIN apps : apps[k] = a
    IN  scores[i]

RECURSIVE InsertDesc(_, _, _, _)
\* x placed behind every element of s whose score is not lower.
InsertDesc(x, s, apps, scores) ==
    IF s = << >> THEN << x >>
    ELSE IF ScoreOf(apps, scores, Head(s)) >= ScoreOf(apps, scores, x)
         THEN << Head(s) >> \o InsertDesc(x, Tail(s), apps, scores)
         ELSE << x >> \o s

RECURSIVE SortedPrefix(_, _, _)
\* The first n loaded applications, sorted.
SortedPrefix(n, apps, scores) ==
    IF n = 0 THEN << >>
    ELSE InsertDesc(apps[n], SortedPrefix(n - 1, apps, scores), apps, scores)

\* A sort without reverse=True in effect: the order of sorted_apps turned round.
sorted_apps_ascending(apps, scores) ==
    LET s == SortedPrefix(Len(apps), apps, scores)
    IN  [ i \in 1..Len(s) |-> s[Len(s) + 1 - i] ]

\* sorted(applications, key=score, reverse=True): descending and stable.
sorted_apps(apps, scores) == SortedPrefix(Len(apps), apps, scores)

\* A top slice that is the whole sorted batch.
top_candidates_all(apps, scores, top_n) == sorted_apps(apps, scores)

top_candidates(apps, scores, top_n) == Take(sorted_apps(apps, scores), top_n)

\* A selection that asks for more than the minimum score.
Selected_above(apps, scores, top_n) ==
    { a \in Range(Take(SortedPrefix(Len(apps), apps, scores), top_n)) :
        ScoreOf(apps, scores, a) > MINIMUM_MATCH_SCORE }

\* The top candidates that reach the minimum score.
Selected(apps, scores, top_n) ==
    { a \in Range(top_candidates(apps, scores, top_n)) :
        ScoreOf(apps, scores, a) >= MINIMUM_MATCH_SCORE }

\* The applications behind the top slice.
Rejected(apps, scores, top_n) == Range(Drop(sorted_apps(apps, scores), top_n))

\* A start without the route's count of the pending applications: with none
\* pending, run_full_hr_workflow goes on to its query after step 1.
ScreenStart_without_count(r, kind, job_id) ==
    /\ FirstFree(r)
    /\ UNCHANGED << scorer, review >>
    /\ nreq < MaxRequests
    /\ nreq' = nreq + 1
    /\ IF job_id \notin Jobs
         THEN /\ last' = Answer(kind, job_id, 404, "job not found")
              /\ run' = run
         ELSE IF PendingOf(job_id) = {} /\ kind = "screen"
         THEN /\ last' = Answer(kind, job_id, 200, "no pending applications")
              /\ run' = run
         ELSE IF PendingOf(job_id) = {}
         THEN /\ last' = last
              /\ run' = [ run EXCEPT ![r] =
                            [ IdleRun EXCEPT !.pc = "screened", !.kind = kind, !.job_id = job_id,
                                             !.steps = << [ step |-> 1, status |-> "completed" ] >> ] ]
         ELSE /\ last' = last
              /\ \E order \in Orders(PendingOf(job_id)) :
                    run' = [ run EXCEPT ![r] =
                              [ IdleRun EXCEPT !.pc = "scoring", !.kind = kind,
                                               !.job_id = job_id, !.applications = order ] ]
    /\ UNCHANGED << screen_wrote, applications, interviews, sub, bulk, shortlist_mails >>

\* The route (job lookup, count of the pending applications) and the load of
\* the pending applications by screen_applications.
ScreenStart(r, kind, job_id) ==
    /\ FirstFree(r)
    /\ UNCHANGED << scorer, review >>
    /\ nreq < MaxRequests
    /\ nreq' = nreq + 1
    /\ IF job_id \notin Jobs
         THEN /\ last' = Answer(kind, job_id, 404, "job not found")
              /\ run' = run
         ELSE IF PendingOf(job_id) = {}
         THEN /\ last' = Answer(kind, job_id, 200, "no pending applications")
              /\ run' = run
         ELSE /\ last' = last
              /\ \E order \in Orders(PendingOf(job_id)) :
                    run' = [ run EXCEPT ![r] =
                              [ IdleRun EXCEPT !.pc = "scoring", !.kind = kind,
                                               !.job_id = job_id, !.applications = order ] ]
    /\ UNCHANGED << screen_wrote, applications, interviews, sub, bulk, shortlist_mails >>

\* A scoring pass that commits the status screening for the application scored.
Score_committing(r, cv_text, resp) ==
    /\ run[r].pc = "scoring"
    /\ UNCHANGED << scorer, review >>
    /\ Len(run[r].scores) < Len(run[r].applications)
    /\ run' = [ run EXCEPT ![r].scores = Append(@, 0) ]
    /\ applications' =
          SetStatus({ run[r].applications[Len(run[r].scores) + 1] }, "screening", applications)
    /\ UNCHANGED << screen_wrote, interviews, sub, bulk, shortlist_mails, last, nreq >>

\* One pass of the scoring loop: extract_cv_text, analyze_cv, the result kept
\* in memory.  An exception leaves screen_applications: the screen route
\* answers 500; run_full_hr_workflow records step 1 as failed and returns.
Score(r, cv_text, resp) ==
    /\ run[r].pc = "scoring"
    /\ UNCHANGED << scorer, review >>
    /\ Len(run[r].scores) < Len(run[r].applications)
    /\ LET analysis == analyze_cv(cv_text, resp)
       IN  IF analysis.raised
             THEN /\ run' = [ run EXCEPT ![r] = IdleRun ]
                  /\ last' = Answer(run[r].kind, run[r].job_id,
                                    IF run[r].kind = "workflow" THEN 200 ELSE 500,
                                    "screening failed")
             ELSE /\ run' = [ run EXCEPT ![r].scores = Append(@, analysis.score) ]
                  /\ last' = last
    /\ UNCHANGED << screen_wrote, applications, interviews, sub, bulk, shortlist_mails, nreq >>

\* After the loop: sort, slice, set the statuses in memory, db.commit().
\* top_n is first read here, so the request's value is drawn here; the
\* workflow passes none and gets the default.
ScreenCommit(r, top_n) ==
    /\ run[r].pc = "scoring"
    /\ UNCHANGED << scorer, review >>
    /\ Len(run[r].scores) = Len(run[r].applications)
    /\ run[r].kind = "workflow" => top_n = CV_SCREENING_TOP_CANDIDATES
    /\ LET apps == run[r].applications
           scores == run[r].scores
       IN  /\ applications' =
                 SetStatus(Rejected(apps, scores, top_n), "rejected",
                           SetStatus(Selected(apps, scores, top_n), "shortlisted", applications))
           /\ screen_wrote' =
                 [ i \in DOMAIN screen_wrote |->
                     IF i \in Selected(apps, scores, top_n)
                       THEN screen_wrote[i] \cup { "shortlisted" }
                     ELSE IF i \in Rejected(apps, scores, top_n)
                       THEN screen_wrote[i] \cup { "rejected" }
                     ELSE screen_wrote[i] ]
           /\ IF run[r].kind = "workflow"
                THEN /\ run' = [ run EXCEPT ![r].pc = "screened",
                                            ![r].steps = << [ step |-> 1, status |-> "completed" ] >> ]
                     /\ last' = last
                ELSE /\ run' = [ run EXCEPT ![r] = IdleRun ]
                     /\ last' = [ Answer("screen", run[r].job_id, 200, "screened") EXCEPT
                                    !.apps = apps, !.scores = scores,
                                    !.top = top_candidates(apps, scores, top_n) ]
    /\ UNCHANGED << interviews, sub, bulk, shortlist_mails, nreq >>

\* The process dies while the call runs: nothing uncommitted reaches the store.
Crash(r) ==
    /\ run[r].pc # "idle"
    /\ UNCHANGED << scorer, review >>
    /\ run' = [ run EXCEPT ![r] = IdleRun ]
    /\ UNCHANGED << screen_wrote, applications, interviews, sub, bulk, shortlist_mails, last, nreq >>

(***************************************************************************)
(* run_full_hr_workflow, steps 2 and 3.                                    *)
(***************************************************************************)
\* A query that also returns the applications whose interview is scheduled.
ShortlistedOf_or_scheduled(job_id) ==
    { i \in DOMAIN applications :
        /\ applications[i].jobId = job_id
        /\ applications[i].status \in { "shortlisted", "round2_scheduled" } }

\* The shortlisted applications of a job.
ShortlistedOf(job_id) ==
    { i \in DOMAIN applications :
        applications[i].jobId = job_id /\ applications[i].status = "shortlisted" }

\* Slots that follow each other without the gap.
SlotTime_without_gap(start, i, duration, gap) == start + i * duration

\* Interview i (from 0) of an allocation that starts at start.
SlotTime(start, i, duration, gap) == start + i * (duration + gap)

\* An allocation that stops after its first candidate.
NewInterviews_first_only(candidates, start, duration, gap) ==
    [ i \in 1..Min(1, Len(candidates)) |->
        [ applicationId |-> candidates[i],
          round |-> "round2",
          scheduledAt |-> SlotTime(start, i - 1, duration, gap),
          durationMinutes |-> duration,
          status |-> "scheduled" ] ]

\* The Round-2 interviews of the candidates, in their order.
NewInterviews(candidates, start, duration, gap) ==
    [ i \in 1..Len(candidates) |->
        [ applicationId |-> candidates[i],
          round |-> "round2",
          scheduledAt |-> SlotTime(start, i - 1, duration, gap),
          durationMinutes |-> duration,
          status |-> "scheduled" ] ]

\* The query of the shortlisted applications after step 1.
WorkflowQuery(r) ==
    /\ run[r].pc = "screened"
    /\ UNCHANGED << scorer, review >>
    /\ \E order \in Orders(ShortlistedOf(run[r].job_id)) :
          IF order = << >>
            THEN /\ run' = [ run EXCEPT ![r] = IdleRun ]
                 /\ last' = Answer("workflow", run[r].job_id, 200, "no candidate shortlisted")
            ELSE /\ run' = [ run EXCEPT ![r].pc = "notify", ![r].shortlisted_apps = order ]
                 /\ last' = last
    /\ UNCHANGED << screen_wrote, applications, interviews, sub, bulk, shortlist_mails, nreq >>

\* One pass of send_bulk_shortlist_notifications: one send, which succeeds or not.
WorkflowNotify(r, ok) ==
    /\ run[r].pc = "notify"
    /\ UNCHANGED << scorer, review >>
    /\ Len(run[r].sent) < Len(run[r].shortlisted_apps)
    /\ LET a == run[r].shortlisted_apps[Len(run[r].sent) + 1]
       IN  shortlist_mails' = [ shortlist_mails EXCEPT ![a] = @ + 1 ]
    /\ run' = [ run EXCEPT ![r].sent = Append(@, ok) ]
    /\ UNCHANGED << screen_wrote, applications, interviews, sub, bulk, last, nreq >>

\* A step 2 that ends after its first send.
WorkflowMark_early(r) ==
    /\ run[r].pc = "notify"
    /\ UNCHANGED << scorer, review >>
    /\ Len(run[r].sent) >= 1
    /\ applications' = SetStatus(Range(run[r].shortlisted_apps), "round1_passed", applications)
    /\ run' = [ run EXCEPT ![r].pc = "schedule",
                           ![r].steps = Append(@, [ step |-> 2, status |-> "completed" ]) ]
    /\ UNCHANGED << screen_wrote, interviews, sub, bulk, shortlist_mails, last, nreq >>

\* After the sends: every one of them to round1_passed, db.commit().
WorkflowMark(r) ==
    /\ run[r].pc = "notify"
    /\ UNCHANGED << scorer, review >>
    /\ Len(run[r].sent) = Len(run[r].shortlisted_apps)
    /\ applications' = SetStatus(Range(run[r].shortlisted_apps), "round1_passed", applications)
    /\ run' = [ run EXCEPT ![r].pc = "schedule",
                           ![r].steps = Append(@, [ step |-> 2, status |-> "completed" ]) ]
    /\ UNCHANGED << screen_wrote, interviews, sub, bulk, shortlist_mails, last, nreq >>

\* Step 3: one Interview per candidate, the statuses, db.commit().
WorkflowSchedule(r, start) ==
    /\ run[r].pc = "schedule"
    /\ UNCHANGED << scorer, review >>
    /\ Len(interviews) + Len(run[r].shortlisted_apps) <= MaxInterviews
    /\ interviews' = interviews \o
          NewInterviews(run[r].shortlisted_apps, start,
                        INTERVIEW_DURATION_MINUTES, INTERVIEW_GAP_MINUTES)
    /\ applications' = SetStatus(Range(run[r].shortlisted_apps), "round2_scheduled", applications)
    /\ run' = [ run EXCEPT ![r] = IdleRun ]
    /\ last' = [ Answer("workflow", run[r].job_id, 200, "completed") EXCEPT
                   !.sent = CountOf(run[r].sent, TRUE), !.failed = CountOf(run[r].sent, FALSE) ]
    /\ UNCHANGED << screen_wrote, sub, bulk, shortlist_mails, nreq >>

(***************************************************************************)
(* POST /applications/job/{job_id}/notify-shortlisted                      *)
(* PUT /applications/{application_id}/status                               *)
(***************************************************************************)
\* A notification that moves on only the applications whose send succeeded.
notify_sent_only(job_id) ==
    /\ nreq < MaxRequests
    /\ UNCHANGED << scorer, review >>
    /\ nreq' = nreq + 1
    /\ job_id \in Jobs
    /\ ShortlistedOf(job_id) # {}
    /\ \E success \in [ ShortlistedOf(job_id) -> BOOLEAN ] :
          /\ last' = [ Answer("notify", job_id, 200, "notified") EXCEPT
                         !.sent = Cardinality({ i \in ShortlistedOf(job_id) : success[i] }),
                         !.failed = Cardinality({ i \in ShortlistedOf(job_id) : ~ success[i] }) ]
          /\ applications' =
                SetStatus({ i \in ShortlistedOf(job_id) : success[i] }, "round1_passed", applications)
    /\ shortlist_mails' =
          [ i \in DOMAIN shortlist_mails |->
              IF i \in ShortlistedOf(job_id) THEN shortlist_mails[i] + 1 ELSE shortlist_mails[i] ]
    /\ UNCHANGED << screen_wrote, interviews, sub, run, bulk >>

notify_shortlisted_candidates(job_id) ==
    /\ nreq < MaxRequests
    /\ UNCHANGED << scorer, review >>
    /\ nreq' = nreq + 1
    /\ IF job_id \notin Jobs
         THEN /\ last' = Answer("notify", job_id, 404, "job not found")
              /\ UNCHANGED << applications, shortlist_mails >>
         ELSE IF ShortlistedOf(job_id) = {}
         THEN /\ last' = Answer("notify", job_id, 200, "no shortlisted candidates")
              /\ UNCHANGED << applications, shortlist_mails >>
         ELSE /\ \E success \in [ ShortlistedOf(job_id) -> BOOLEAN ] :
                    last' = [ Answer("notify", job_id, 200, "notified") EXCEPT
                                !.sent = Cardinality({ i \in ShortlistedOf(job_id) : success[i] }),
                                !.failed = Cardinality({ i \in ShortlistedOf(job_id) : ~ success[i] }) ]
              /\ shortlist_mails' =
                    [ i \in DOMAIN shortlist_mails |->
                        IF i \in ShortlistedOf(job_id)
                          THEN shortlist_mails[i] + 1 ELSE shortlist_mails[i] ]
              /\ applications' = SetStatus(ShortlistedOf(job_id), "round1_passed", applications)
    /\ UNCHANGED << screen_wrote, interviews, sub, run, bulk >>

\* An update that stores new_status without looking it up in the vocabulary.
update_application_status_unchecked(application_id, new_status) ==
    /\ nreq < MaxRequests
    /\ UNCHANGED << scorer, review >>
    /\ nreq' = nreq + 1
    /\ IF application_id \notin DOMAIN applications
         THEN /\ last' = Answer("update_status", "j0", 404, "application not found")
              /\ applications' = applications
              /\ screen_wrote' = screen_wrote
         ELSE /\ last' = Answer("update_status", applications[application_id].jobId, 200, "updated")
              /\ applications' = SetStatus({ application_id }, new_status, applications)
              /\ screen_wrote' = [ screen_wrote EXCEPT ![application_id] = {} ]
    /\ UNCHANGED << interviews, sub, run, bulk, shortlist_mails >>

update_application_status(application_id, new_status) ==
    /\ nreq < MaxRequests
    /\ UNCHANGED << scorer, review >>
    /\ nreq' = nreq + 1
    /\ IF application_id \notin DOMAIN applications
         THEN /\ last' = Answer("update_status", "j0", 404, "application not found")
              /\ applications' = applications
              /\ screen_wrote' = screen_wrote
         ELSE IF new_status \notin valid_statuses
         THEN /\ last' = Answer("update_status", applications[application_id].jobId, 400, "invalid status")
              /\ applications' = applications
              /\ screen_wrote' = screen_wrote
         ELSE /\ last' = Answer("update_status", applications[application_id].jobId, 200, "updated")
              /\ applications' = SetStatus({ application_id }, new_status, applications)
              /\ screen_wrote' = [ screen_wrote EXCEPT ![application_id] = {} ]
    /\ UNCHANGED << interviews, sub, run, bulk, shortlist_mails >>

(***************************************************************************)
(* The interview routes and InterviewScheduler.                            *)
(***************************************************************************)
IdleBulk == [ pc |-> "idle", job_id |-> "j0" ]

\* The candidates of a bulk allocation: shortlisted or round1_passed.
CandidatesOf(job_id) ==
    { i \in DOMAIN applications :
        /\ applications[i].jobId = job_id
        /\ applications[i].status \in { "shortlisted", "round1_passed" } }

\* The route up to its commit: the round1_passed candidates back to shortlisted.
BulkReset(job_id) ==
    /\ bulk.pc = "idle"
    /\ UNCHANGED << scorer, review >>
    /\ nreq < MaxRequests
    /\ nreq' = nreq + 1
    /\ IF CandidatesOf(job_id) = {}
         THEN /\ last' = Answer("bulk_schedule", job_id, 200, "no candidates")
              /\ UNCHANGED << applications, bulk >>
         ELSE /\ last' = last
              /\ applications' =
                    SetStatus({ i \in CandidatesOf(job_id) : applications[i].status = "round1_passed" },
                              "shortlisted", applications)
              /\ bulk' = [ pc |-> "reset", job_id |-> job_id ]
    /\ UNCHANGED << screen_wrote, interviews, sub, run, shortlist_mails >>

\* InterviewScheduler.schedule_bulk_interviews: one Interview per shortlisted
\* application of the job, in the order of the query, and its commit.
BulkSchedule(start, duration, gap) ==
    /\ bulk.pc = "reset"
    /\ UNCHANGED << scorer, review >>
    /\ IF bulk.job_id \notin Jobs
         THEN /\ last' = Answer("bulk_schedule", bulk.job_id, 500, "job not found")
              /\ UNCHANGED << applications, interviews >>
         ELSE /\ Len(interviews) + Cardinality(ShortlistedOf(bulk.job_id)) <= MaxInterviews
              /\ last' = Answer("bulk_schedule", bulk.job_id, 200, "scheduled")
              /\ \E order \in Orders(ShortlistedOf(bulk.job_id)) :
                    interviews' = interviews \o NewInterviews(order, start, duration, gap)
              /\ applications' = SetStatus(ShortlistedOf(bulk.job_id), "round2_scheduled", applications)
    /\ bulk' = IdleBulk
    /\ UNCHANGED << screen_wrote, sub, run, shortlist_mails, nreq >>

schedule_single_interview(application_id, scheduled_at, duration_minutes) ==
    /\ nreq < MaxRequests
    /\ UNCHANGED << scorer, review >>
    /\ nreq' = nreq + 1
    /\ IF application_id \notin DOMAIN applications
         THEN /\ last' = Answer("schedule", "j0", 500, "application not found")
              /\ UNCHANGED << applications, interviews >>
         ELSE /\ Len(interviews) < MaxInterviews
              /\ last' = Answer("schedule", applications[application_id].jobId, 201, "scheduled")
              /\ interviews' = Append(interviews,
                    [ applicationId |-> application_id,
                      round |-> "round2",
                      scheduledAt |-> scheduled_at,
                      durationMinutes |-> duration_minutes,
                      status |-> "scheduled" ])
              /\ applications' = SetStatus({ application_id }, "round2_scheduled", applications)
    /\ UNCHANGED << screen_wrote, sub, run, bulk, shortlist_mails >>

reschedule_interview(interview_id, new_datetime) ==
    /\ nreq < MaxRequests
    /\ UNCHANGED << scorer, review >>
    /\ nreq' = nreq + 1
    /\ IF interview_id \notin DOMAIN interviews
         THEN /\ last' = Answer("reschedule", "j0", 500, "interview not found")
              /\ interviews' = interviews
         ELSE /\ last' = Answer("reschedule", "j0", 200, "rescheduled")
              /\ interviews' = [ interviews EXCEPT ![interview_id].scheduledAt = new_datetime,
                                                   ![interview_id].status = "rescheduled" ]
    /\ UNCHANGED << screen_wrote, applications, sub, run, bulk, shortlist_mails >>

\* The complete route (rating check) and InterviewScheduler.complete_interview.
complete_interview(interview_id, rating, passed) ==
    /\ nreq < MaxRequests
    /\ UNCHANGED << scorer, review >>
    /\ nreq' = nreq + 1
    /\ IF rating < 1 \/ rating > 5
         THEN /\ last' = Answer("complete", "j0", 400, "rating")
              /\ UNCHANGED << applications, interviews >>
         ELSE IF interview_id \notin DOMAIN interviews
         THEN /\ last' = Answer("complete", "j0", 500, "interview not found")
              /\ UNCHANGED << applications, interviews >>
         ELSE /\ last' = Answer("complete", "j0", 200, "completed")
              /\ interviews' = [ interviews EXCEPT ![interview_id].status = "completed" ]
              /\ applications' =
                    SetStatus({ interviews[interview_id].applicationId },
                              IF passed THEN "round2_completed" ELSE "rejected", applications)
    /\ UNCHANGED << screen_wrote, sub, run, bulk, shortlist_mails >>

(***************************************************************************)
(* The scorers, one call at a time: analyze_cv_with_ai of src/app.py       *)
(* ("app") and of src/simple_ai_agent.py ("simple"), which retry, and      *)
(* AIScreeningAgent.analyze_cv ("agent"), which calls the provider once.   *)
(* A text is the tuple of its characters.                                  *)
(***************************************************************************)
max_retries == 3
\* wait_time = 35 * (attempt + 1)
BackoffBase == 35
\* str(e)[:100]
ErrorTextLimit == 100
\* The score of a response that could not be parsed and holds no score.
UnparsedScore == 50
\* The regular expression finds no "score": <digits> in the text.
NoMatch == -1

Programs == { "app", "simple", "agent" }

\* str(e) of the exceptions of the provider.
Text429 == << "4", "2", "9" >>
TextQuota == << "Q", "u", "o", "t", "a" >>
Text500 == << "5", "0", "0" >>
TextKey1429 == << "k", "e", "y", "1", "4", "2", "9" >>
TextLong == [ i \in 1..(ErrorTextLimit + 1) |-> "x" ]
ErrorTexts == { Text429, TextQuota, Text500, TextKey1429, TextLong }

\* What one generate_content call does, as ProviderOutcomes, with what the
\* scorers read of it: the text of the exception; of a text that is not
\* JSON, the digits after its first "score": (NoMatch if none) and the
\* position in the message of the JSONDecodeError; the score of the JSON.
Reply(kind, text, salvage, score) ==
    [ kind |-> kind, text |-> text, salvage |-> salvage, score |-> score ]

ScorerReplies ==
    { Reply("raise", e, NoMatch, 0) : e \in ErrorTexts }
    \cup { Reply("no_text", Text500, NoMatch, 0) }
    \cup { Reply("bad_json", pos, m, 0) : pos \in { << "0" >>, Text429 }, m \in { NoMatch, 85, 150 } }
    \cup { Reply("json", << >>, NoMatch, s) : s \in { -5, 0, 75, 150 } }

\* str.lower(), on the letters of the texts.
lower(text) ==
    [ i \in DOMAIN text |->
        CASE text[i] = "Q" -> "q"
          [] text[i] = "U" -> "u"
          [] text[i] = "O" -> "o"
          [] text[i] = "T" -> "t"
          [] text[i] = "A" -> "a"
          [] OTHER -> text[i] ]

\* pat in text
Contains(text, pat) ==
    \E i \in 1..(Len(text) - Len(pat) + 1) : SubSeq(text, i, i + Len(pat) - 1) = pat

\* "429" in error_str or "quota" in error_str.lower()
RateLimited(error_str) ==
    \/ Contains(error_str, << "4", "2", "9" >>)
    \/ Contains(lower(error_str), << "q", "u", "o", "t", "a" >>)

\* str(e) of a JSONDecodeError: it ends with the position of the error.
DecodeMessage(pos) == << "c", "h", "a", "r", " " >> \o pos

\* A backoff that does not grow.
wait_time_constant(attempt) == BackoffBase

wait_time(attempt) == BackoffBase * (attempt + 1)

\* A summary: a fixed message, or a message built from a text.
Summary(kind, text) == [ kind |-> kind, text |-> text ]

Result(score, summary) == [ score |-> score, summary |-> summary ]

IdleScorer ==
    [ pc |-> "idle", program |-> "none", attempt |-> 0, calls |-> 0, slept |-> 0,
      replies |-> << >>, result |-> Result(0, Summary("none", << >>)) ]

\* A call that goes to the provider whatever the CV text is.
ScorerCall_always_calls(program, cv_text) ==
    /\ scorer.pc \in { "idle", "done", "raised" }
    /\ scorer' = [ IdleScorer EXCEPT !.pc = "calling", !.program = program ]
    /\ UNCHANGED << applications, interviews, sub, run, bulk, shortlist_mails,
                    screen_wrote, last, nreq, review >>

\* The call, up to the first attempt: no provider call without CV text.
ScorerCall(program, cv_text) ==
    /\ scorer.pc \in { "idle", "done", "raised" }
    /\ scorer' =
          IF cv_text = ""
            THEN [ IdleScorer EXCEPT !.pc = "done", !.program = program,
                                     !.result = Result(0, Summary("no_cv", << >>)) ]
            ELSE [ IdleScorer EXCEPT !.pc = "calling", !.program = program ]
    /\ UNCHANGED << applications, interviews, sub, run, bulk, shortlist_mails,
                    screen_wrote, last, nreq, review >>

\* The exception that the try block of the program raises on the reply.
Raises(program, reply) ==
    \/ reply.kind \in { "raise", "no_text" }
    \/ reply.kind = "bad_json" /\ program # "app"

\* Its str(e).
error_str(reply) ==
    IF reply.kind = "bad_json" THEN DecodeMessage(reply.text) ELSE reply.text

\* One attempt of analyze_cv_with_ai, with the calls and replies counted in s.
LoopOutcome(s, reply) ==
    IF Raises(s.program, reply)
      THEN IF RateLimited(error_str(reply))
             THEN [ s EXCEPT !.pc = "sleeping" ]
             ELSE [ s EXCEPT !.pc = "done",
                             !.result = Result(0, Summary("error", Take(error_str(reply), ErrorTextLimit))) ]
    ELSE IF reply.kind = "bad_json"
      THEN [ s EXCEPT !.pc = "done",
                      !.result = IF reply.salvage # NoMatch
                                   THEN Result(reply.salvage, Summary("parsed", << >>))
                                   ELSE Result(UnparsedScore, Summary("unparsed", << >>)) ]
    ELSE [ s EXCEPT !.pc = "done", !.result = Result(reply.score, Summary("provider", << >>)) ]

\* The one attempt of AIScreeningAgent.analyze_cv.
AgentOutcome(s, reply) ==
    IF analyze_cv("cv", reply).raised
      THEN [ s EXCEPT !.pc = "raised" ]
      ELSE [ s EXCEPT !.pc = "done",
                      !.result =
                         Result(analyze_cv("cv", reply).score,
                                IF reply.kind = "json"
                                  THEN Summary("provider", << >>)
                                  ELSE Summary("agent_error", error_str(reply))) ]

\* generate_content and the reading of its reply.
ProviderCall(reply) ==
    /\ scorer.pc = "calling"
    /\ LET s == [ scorer EXCEPT !.calls = @ + 1, !.replies = Append(@, reply) ]
       IN scorer' = IF s.program = "agent" THEN AgentOutcome(s, reply) ELSE LoopOutcome(s, reply)
    /\ UNCHANGED << applications, interviews, sub, run, bulk, shortlist_mails,
                    screen_wrote, last, nreq, review >>

\* A loop that makes one attempt more.
Backoff_again ==
    /\ scorer.pc = "sleeping"
    /\ scorer' =
          [ scorer EXCEPT
              !.slept = @ + wait_time(scorer.attempt),
              !.attempt = @ + 1,
              !.pc = IF scorer.attempt + 1 < max_retries + 1 THEN "calling" ELSE "done",
              !.result = IF scorer.attempt + 1 < max_retries + 1
                           THEN @ ELSE Result(0, Summary("rate_limit", << >>)) ]
    /\ UNCHANGED << applications, interviews, sub, run, bulk, shortlist_mails,
                    screen_wrote, last, nreq, review >>

\* time.sleep(wait_time) and continue: the next attempt, or after the last
\* one the return that follows the loop.
Backoff ==
    /\ scorer.pc = "sleeping"
    /\ scorer' =
          [ scorer EXCEPT
              !.slept = @ + wait_time(scorer.attempt),
              !.attempt = @ + 1,
              !.pc = IF scorer.attempt + 1 < max_retries THEN "calling" ELSE "done",
              !.result = IF scorer.attempt + 1 < max_retries
                           THEN @ ELSE Result(0, Summary("rate_limit", << >>)) ]
    /\ UNCHANGED << applications, interviews, sub, run, bulk, shortlist_mails,
                    screen_wrote, last, nreq, review >>

(***************************************************************************)
(* run_ai_review of src/app.py, the screening endpoint of the Flask        *)
(* program, on the same table JobApplication; run_ai_agent of              *)
(* src/simple_ai_agent.py is the same loop run from the command line.      *)
(***************************************************************************)
\* top_10 = results[:10]
ReviewTop == 10

\* The scores analyze_cv_with_ai returns to the loop.
ReviewScores == { 0, MINIMUM_MATCH_SCORE }

IdleReview ==
    [ pc |-> "idle", job_id |-> "j0", applications |-> << >>, scores |-> << >>,
      top_10 |-> << >>, mailed |-> 0, emails_sent |-> 0 ]

\* get_applications: the rows of the job in status pending.
get_applications(job_id) == PendingOf(job_id)

\* The request up to the loop: the job, then its applications.
run_ai_review(job_id) ==
    /\ review.pc = "idle"
    /\ nreq < MaxRequests
    /\ nreq' = nreq + 1
    /\ IF job_id = ""
         THEN /\ last' = Answer("review", job_id, 400, "job id is required")
              /\ review' = review
       ELSE IF job_id \notin Jobs
         THEN /\ last' = Answer("review", job_id, 404, "job not found")
              /\ review' = review
       ELSE IF get_applications(job_id) = {}
         THEN /\ last' = Answer("review", job_id, 200, "no applications")
              /\ review' = review
       ELSE /\ last' = last
            /\ \E order \in Orders(get_applications(job_id)) :
                  review' = [ IdleReview EXCEPT !.pc = "screening", !.job_id = job_id,
                                                !.applications = order ]
    /\ UNCHANGED << applications, interviews, sub, run, bulk, shortlist_mails,
                    screen_wrote, scorer >>

\* One pass of the loop of step 3: the score of the next application.
ReviewScore(score) ==
    /\ review.pc = "screening"
    /\ Len(review.scores) < Len(review.applications)
    /\ review' = [ review EXCEPT !.scores = Append(@, score) ]
    /\ UNCHANGED << applications, interviews, sub, run, bulk, shortlist_mails,
                    screen_wrote, last, nreq, scorer >>

\* Step 4: results.sort(key=score, reverse=True); top_10 = results[:10].
ReviewSort ==
    /\ review.pc = "screening"
    /\ Len(review.scores) = Len(review.applications)
    /\ review' = [ review EXCEPT
                     !.pc = "mailing",
                     !.top_10 = Take(sorted_apps(review.applications, review.scores), ReviewTop) ]
    /\ UNCHANGED << applications, interviews, sub, run, bulk, shortlist_mails,
                    screen_wrote, last, nreq, scorer >>

\* One pass of the loop over top_10: a candidate with an email is sent the
\* congratulation, and when send_email returns True update_application_status
\* stores shortlisted in its own transaction.  Without an email no send is
\* tried, so ok is not drawn twice.
ReviewMail(ok) ==
    /\ review.pc = "mailing"
    /\ review.mailed < Len(review.top_10)
    /\ LET a == review.top_10[review.mailed + 1]
           has_email == applications[a].email # ""
       IN  /\ has_email \/ ok
           /\ review' = [ review EXCEPT
                            !.mailed = @ + 1,
                            !.emails_sent = IF has_email /\ ok THEN @ + 1 ELSE @ ]
           /\ shortlist_mails' =
                 IF has_email THEN [ shortlist_mails EXCEPT ![a] = @ + 1 ] ELSE shortlist_mails
           /\ applications' =
                 IF has_email /\ ok
                   THEN SetStatus({ a }, "shortlisted", applications) ELSE applications
    /\ UNCHANGED << interviews, sub, run, bulk, screen_wrote, last, nreq, scorer >>

\* The answer: success with the counts and the top candidates.
ReviewReturn ==
    /\ review.pc = "mailing"
    /\ review.mailed = Len(review.top_10)
    /\ last' = [ Answer("review", review.job_id, 200, "AI review completed") EXCEPT
                   !.apps = review.applications, !.scores = review.scores,
                   !.top = review.top_10, !.sent = review.emails_sent ]
    /\ review' = IdleReview
    /\ UNCHANGED << applications, interviews, sub, run, bulk, shortlist_mails,
                    screen_wrote, nreq, scorer >>

(***************************************************************************)
(* The system.                                                             *)
(***************************************************************************)
Init ==
    /\ applications = << >>
    /\ interviews = << >>
    /\ sub = [ s \in SubSlots |-> IdleSub ]
    /\ run = [ r \in RunSlots |-> IdleRun ]
    /\ bulk = IdleBulk
    /\ shortlist_mails = << >>
    /\ screen_wrote = << >>
    /\ last = Answer("none", "j0", 0, "")
    /\ nreq = 0
    /\ scorer = IdleScorer
    /\ review = IdleReview

\* Jobs are interchangeable, and so are emails: of the behaviours that differ
\* by a renaming only, the ones whose first submission to pass the checks is
\* ann's for j1 are kept.
Renamed(job_id, email) ==
    ( /\ applications = << >>
      /\ \A s \in SubSlots : sub[s].pc = "idle"
      /\ sub' # sub )
    => ( job_id = "j1" /\ email = "ann@x" )

\* The start of a submission, up to renaming.
Submit(s, job_id, email, file_ext) ==
    SubmitCheck(s, job_id, email, file_ext) /\ Renamed(job_id, email)

Next ==
    \/ \E s \in SubSlots, j \in JobIds, e \in Emails, x \in FileExts : Submit(s, j, e, x)
    \/ \E s \in SubSlots : SubmitInsert(s)
    \/ \E r \in RunSlots, k \in { "screen", "workflow" }, j \in JobIds : ScreenStart(r, k, j)
    \/ \E r \in RunSlots, t \in CvTexts, o \in ProviderOutcomes : Score(r, t, o)
    \/ \E r \in RunSlots, n \in TopNs : ScreenCommit(r, n)
    \/ \E r \in RunSlots : Crash(r)
    \/ \E r \in RunSlots : WorkflowQuery(r)
    \/ \E r \in RunSlots, ok \in BOOLEAN : WorkflowNotify(r, ok)
    \/ \E r \in RunSlots : WorkflowMark(r)
    \/ \E r \in RunSlots, t \in StartTimes : WorkflowSchedule(r, t)
    \/ \E j \in JobIds : notify_shortlisted_candidates(j)
    \/ \E a \in AppIds, st \in NewStatuses : update_application_status(a, st)
    \/ \E j \in JobIds : BulkReset(j)
    \/ \E t \in StartTimes, d \in Durations, g \in Gaps : BulkSchedule(t, d, g)
    \/ \E a \in AppIds, t \in StartTimes, d \in Durations : schedule_single_interview(a, t, d)
    \/ \E i \in InterviewIds, t \in NewTimes : reschedule_interview(i, t)
    \/ \E i \in InterviewIds, g \in Ratings, p \in BOOLEAN : complete_interview(i, g, p)

Spec == Init /\ [][Next]_vars

(***************************************************************************)
(* The allocation of interviews, from any stored table of applications:    *)
(* the bulk-schedule request and run_full_hr_workflow.                     *)
(***************************************************************************)
\* The statuses of the applications stored at the start.
StoredStatuses == { "pending", "shortlisted", "round1_passed" }

\* The tables of applications stored at the start: of any job and any of
\* these statuses, the emails alternating.
StoredTables ==
    UNION { { [ i \in 1..n |->
                 [ jobId |-> jobs[i],
                   email |-> IF i % 2 = 1 THEN "ann@x" ELSE "bob@x",
                   status |-> statuses[i] ] ] :
              jobs \in [ 1..n -> Jobs ], statuses \in [ 1..n -> StoredStatuses ] } :
            n \in 0..MaxApps }

InitStored ==
    /\ applications \in StoredTables
    /\ interviews = << >>
    /\ sub = [ s \in SubSlots |-> IdleSub ]
    /\ run = [ r \in RunSlots |-> IdleRun ]
    /\ bulk = IdleBulk
    /\ shortlist_mails = [ i \in DOMAIN applications |-> 0 ]
    /\ screen_wrote = [ i \in DOMAIN applications |-> {} ]
    /\ last = Answer("none", "j0", 0, "")
    /\ nreq = 0
    /\ scorer = IdleScorer
    /\ review = IdleReview

\* One workflow call at a time, in slot 1; every CV is scored at the minimum
\* and every send succeeds.
NextAllocation ==
    \/ \E j \in JobIds : BulkReset(j)
    \/ \E t \in StartTimes, d \in Durations, g \in Gaps : BulkSchedule(t, d, g)
    \/ \E j \in JobIds : ScreenStart(1, "workflow", j)
    \/ Score(1, "cv", [ kind |-> "json", score |-> MINIMUM_MATCH_SCORE ])
    \/ ScreenCommit(1, CV_SCREENING_TOP_CANDIDATES)
    \/ WorkflowQuery(1)
    \/ WorkflowNotify(1, TRUE)
    \/ WorkflowMark(1)
    \/ \E t \in StartTimes : WorkflowSchedule(1, t)

SpecAllocation == InitStored /\ [][NextAllocation]_vars

(***************************************************************************)
(* Requests one at a time, from any stored table: screen, run-workflow,    *)
(* notify-shortlisted and bulk-schedule, each of which may die part-way;   *)
(* no manual status update.  Every CV is scored at the minimum.            *)
(***************************************************************************)
\* No request is in flight.
NoneInFlight ==
    /\ \A r \in RunSlots : run[r].pc = "idle"
    /\ bulk.pc = "idle"

\* The process dies between the commit of the bulk-schedule route and the
\* commit of the scheduler.
BulkCrash ==
    /\ bulk.pc = "reset"
    /\ bulk' = IdleBulk
    /\ UNCHANGED << applications, interviews, sub, run, shortlist_mails, screen_wrote,
                    last, nreq, scorer, review >>

\* The start of a screen or of a workflow when nothing else runs.
StartAlone(kind, job_id) == NoneInFlight /\ ScreenStart(1, kind, job_id)

\* The notify route when nothing else runs.
NotifyAlone(job_id) == NoneInFlight /\ notify_shortlisted_candidates(job_id)

\* The bulk-schedule route when nothing else runs.
BulkAlone(job_id) == NoneInFlight /\ BulkReset(job_id)

NextSequential ==
    \/ \E k \in { "screen", "workflow" }, j \in Jobs : StartAlone(k, j)
    \/ Score(1, "cv", [ kind |-> "json", score |-> MINIMUM_MATCH_SCORE ])
    \/ ScreenCommit(1, CV_SCREENING_TOP_CANDIDATES)
    \/ Crash(1)
    \/ WorkflowQuery(1)
    \/ WorkflowNotify(1, TRUE)
    \/ WorkflowMark(1)
    \/ \E t \in StartTimes : WorkflowSchedule(1, t)
    \/ \E j \in Jobs : NotifyAlone(j)
    \/ \E j \in Jobs : BulkAlone(j)
    \/ BulkSchedule(540, INTERVIEW_DURATION_MINUTES, INTERVIEW_GAP_MINUTES)
    \/ BulkCrash

SpecSequential == InitStored /\ [][NextSequential]_vars

(***************************************************************************)
(* The scorers alone: calls of the three programs, for every CV text and   *)
(* every sequence of replies of the provider.                              *)
(***************************************************************************)
NextScorer ==
    \/ \E p \in Programs, t \in CvTexts : ScorerCall(p, t)
    \/ \E reply \in ScorerReplies : ProviderCall(reply)
    \/ Backoff

SpecScorer == Init /\ [][NextScorer]_vars

\* Every provider call returns or raises, and every sleep ends.
FairScorer ==
    SpecScorer /\ WF_vars(\E reply \in ScorerReplies : ProviderCall(reply)) /\ WF_vars(Backoff)

(***************************************************************************)
(* run_ai_review alone, from any stored table whose rows are pending or    *)
(* shortlisted and have an email or none; jobs are interchangeable, and    *)
(* the first row is of j1.                                                 *)
(***************************************************************************)
ReviewTables ==
    UNION { { [ i \in 1..n |->
                  [ jobId |-> jobs[i], email |-> emails[i], status |-> statuses[i] ] ] :
              jobs \in { f \in [ 1..n -> Jobs ] : n > 0 => f[1] = "j1" },
              emails \in [ 1..n -> { "ann@x", "" } ],
              statuses \in [ 1..n -> { "pending", "shortlisted" } ] } :
            n \in 0..MaxApps }

InitReview ==
    /\ applications \in ReviewTables
    /\ interviews = << >>
    /\ sub = [ s \in SubSlots |-> IdleSub ]
    /\ run = [ r \in RunSlots |-> IdleRun ]
    /\ bulk = IdleBulk
    /\ shortlist_mails = [ i \in DOMAIN applications |-> 0 ]
    /\ screen_wrote = [ i \in DOMAIN applications |-> {} ]
    /\ last = Answer("none", "j0", 0, "")
    /\ nreq = 0
    /\ scorer = IdleScorer
    /\ review = IdleReview

NextReview ==
    \/ \E j \in JobIds \cup { "" } : run_ai_review(j)
    \/ \E s \in ReviewScores : ReviewScore(s)
    \/ ReviewSort
    \/ \E ok \in BOOLEAN : ReviewMail(ok)
    \/ ReviewReturn

SpecReview == InitReview /\ [][NextReview]_vars


(***************************************************************************)
(* Properties of screen_applications.                                      *)
(***************************************************************************)
\* The status of application i in a table of applications.
StatusIn(table, i) == table[i].status

\* a stands before b in the ranking of a batch: a higher score, or the same
\* score and retrieved earlier.
Before(apps, scores, a, b) ==
    \/ ScoreOf(apps, scores, a) > ScoreOf(apps, scores, b)
    \/ /\ ScoreOf(apps, scores, a) = ScoreOf(apps, scores, b)
       /\ (CHOOSE k \in DOMAIN apps : apps[k] = a) < (CHOOSE k \in DOMAIN apps : apps[k] = b)

\* The place of a in the ranking of a batch, from 1.
PlaceOf(apps, scores, a) ==
    1 + Cardinality({ b \in Range(apps) : Before(apps, scores, b, a) })

\* Run r leaves its scoring phase in this step, with every application of its
\* batch scored.
EndsScoring(r) ==
    /\ run[r].pc = "scoring"
    /\ Len(run[r].scores) = Len(run[r].applications)
    /\ run'[r].pc # "scoring"

\* C1: a screening commit gives the status shortlisted to the applications of
\* its top slice whose score is at least MINIMUM_MATCH_SCORE, and to no
\* application beside them: an application of the top slice with a lower
\* score, an application behind the slice and an application outside the
\* batch do not become shortlisted in the step.
C1_ShortlistOnlyAboveMinimum ==
    [][ \A r \in RunSlots, n \in TopNs :
          ( EndsScoring(r) /\ ScreenCommit(r, n) ) =>
            LET apps == run[r].applications
                scores == run[r].scores
                top == Range(top_candidates(apps, scores, n))
            IN  /\ \A a \in top :
                      ScoreOf(apps, scores, a) >= MINIMUM_MATCH_SCORE
                        => StatusIn(applications', a) = "shortlisted"
                /\ \A i \in DOMAIN applications :
                      ( /\ StatusIn(applications', i) = "shortlisted"
                        /\ StatusIn(applications, i) # "shortlisted" )
                        => /\ i \in top
                           /\ ScoreOf(apps, scores, i) >= MINIMUM_MATCH_SCORE ]_vars

\* A screen request has answered with two applications in its top slice: the
\* one that reached exactly the minimum score is shortlisted, the one below it
\* is still pending.
C1_Witness ==
    /\ last.op = "screen"
    /\ last.detail = "screened"
    /\ \E a, b \in Range(last.top) :
          /\ ScoreOf(last.apps, last.scores, a) = MINIMUM_MATCH_SCORE
          /\ applications[a].status = "shortlisted"
          /\ ScoreOf(last.apps, last.scores, b) < MINIMUM_MATCH_SCORE
          /\ applications[b].status = "pending"

\* C2: for a top_n of at least 0, the screening commit ranks the batch by
\* score from high to low, equal scores in the order of retrieval; the
\* applications returned are the first min(top_n, size) places of that ranking
\* in order, and every application at a later place is rejected.
C2_StableDescendingSlice ==
    [][ \A r \in RunSlots, n \in TopNs :
          ( n >= 0 /\ EndsScoring(r) /\ ScreenCommit(r, n) ) =>
            LET apps == run[r].applications
                scores == run[r].scores
                k == Min(n, Len(apps))
            IN  /\ run[r].kind = "screen" =>
                      /\ Len(last'.top) = k
                      /\ \A i \in 1..k :
                            /\ last'.top[i] \in Range(apps)
                            /\ PlaceOf(apps, scores, last'.top[i]) = i
                /\ \A a \in Range(apps) :
                      PlaceOf(apps, scores, a) > k
                        => StatusIn(applications', a) = "rejected" ]_vars

\* A screen request with top_n 1 has answered for two applications of equal
\* score: the one retrieved first is returned, the other one is rejected.
C2_Witness ==
    /\ last.op = "screen"
    /\ last.detail = "screened"
    /\ Len(last.apps) = 2
    /\ last.scores[1] = last.scores[2]
    /\ last.top = << last.apps[1] >>
    /\ applications[last.apps[2]].status = "rejected"

\* No request is in flight.
Quiescent ==
    /\ \A s \in SubSlots : sub[s].pc = "idle"
    /\ \A r \in RunSlots : run[r].pc = "idle"
    /\ bulk.pc = "idle"

\* C3: a screen request that follows a screen request of the same job, with
\* no request between the two and none in flight, is a no-op: it loads no
\* application, so that it scores none, changes no status and sends nothing.
C3_SecondScreenIsNoOp ==
    [][ \A r \in RunSlots, j \in Jobs :
          ( /\ ScreenStart(r, "screen", j)
            /\ Quiescent
            /\ last.op = "screen" /\ last.job = j /\ last.code = 200 )
          => /\ run' = run
             /\ applications' = applications
             /\ shortlist_mails' = shortlist_mails ]_vars

(***************************************************************************)
(* Properties of the application status.                                   *)
(***************************************************************************)
\* The place of a status in the order
\* pending, screening | shortlisted, round1_passed, round2_scheduled,
\* round2_completed, hired | rejected.
StatusRank(st) ==
    CASE st = "pending" -> 0
      [] st \in { "screening", "shortlisted" } -> 1
      [] st = "round1_passed" -> 2
      [] st = "round2_scheduled" -> 3
      [] st = "round2_completed" -> 4
      [] st \in { "hired", "rejected" } -> 5

RowsOf(table, job_id, email) ==
    { i \in DOMAIN table : table[i].jobId = job_id /\ table[i].email = email }

C7_FailureScoresZeroAndContinues ==
    [][ \A r \in RunSlots, t \in CvTexts, o \in ProviderOutcomes :
          Score(r, t, o) =>
            /\ run'[r].pc = "scoring"
            /\ Len(run'[r].scores) = Len(run[r].scores) + 1
            /\ ( t = "" \/ o.kind # "json" ) => run'[r].scores[Len(run'[r].scores)] = 0 ]_vars

\* C8: in one workflow run a shortlist notification is sent only after every
\* application of the batch is scored and step 1, with its commit, is recorded
\* as completed, and no interview is created by then; the interviews are
\* created only after a notification was sent for every one of the
\* shortlisted applications and step 2 is recorded as completed.
C8_ScreenNotifyAllocate ==
    [][ \A r \in RunSlots :
          /\ ( \E ok \in BOOLEAN : WorkflowNotify(r, ok) ) =>
                /\ Len(run[r].scores) = Len(run[r].applications)
                /\ Len(run[r].steps) = 1
                /\ run[r].steps[1] = [ step |-> 1, status |-> "completed" ]
                /\ interviews' = interviews
          /\ ( \E t \in StartTimes : WorkflowSchedule(r, t) ) =>
                /\ Len(run[r].sent) = Len(run[r].shortlisted_apps)
                /\ \A a \in Range(run[r].shortlisted_apps) : shortlist_mails[a] >= 1
                /\ Len(run[r].steps) = 2
                /\ run[r].steps[2] = [ step |-> 2, status |-> "completed" ]
                /\ Len(interviews') = Len(interviews) + Len(run[r].shortlisted_apps) ]_vars

\* A workflow run has ended after its step 3: two applications of its job
\* have an interview and a shortlist notification each.
C8_Witness ==
    /\ last.op = "workflow"
    /\ last.detail = "completed"
    /\ Len(interviews) = 2
    /\ \A k \in DOMAIN interviews :
          /\ applications[interviews[k].applicationId].jobId = last.job
          /\ applications[interviews[k].applicationId].status = "round2_scheduled"
          /\ shortlist_mails[interviews[k].applicationId] >= 1
    /\ interviews[1].applicationId # interviews[2].applicationId

\* C9: a step of a run in its scoring phase leaves the stored applications as
\* they are, unless it is the one step that ends the phase after every
\* application of the batch is scored; that step stores the status of every
\* application behind the top slice and of every selected one together.
C9_SingleCommit ==
    [][ \A r \in RunSlots :
          ( run[r].pc = "scoring" /\ run'[r] # run[r] ) =>
            \/ applications' = applications
            \/ /\ Len(run[r].scores) = Len(run[r].applications)
               /\ run'[r].pc # "scoring"
               /\ \E n \in TopNs :
                     LET apps == run[r].applications
                         scores == run[r].scores
                         k == IF n >= 0 THEN Min(n, Len(apps)) ELSE Max(Len(apps) + n, 0)
                     IN  \A a \in Range(apps) :
                            StatusIn(applications', a) =
                              IF PlaceOf(apps, scores, a) > k THEN "rejected"
                              ELSE IF ScoreOf(apps, scores, a) >= MINIMUM_MATCH_SCORE
                                THEN "shortlisted"
                              ELSE StatusIn(applications, a) ]_vars

\* A screen request has ended with an exception while scoring, and both
\* applications of its job are still pending.
C9_Witness ==
    /\ last.op = "screen"
    /\ last.code = 500
    /\ last.detail = "screening failed"
    /\ Cardinality({ i \in DOMAIN applications : applications[i].jobId = last.job }) = 2
    /\ \A i \in DOMAIN applications :
          applications[i].jobId = last.job => applications[i].status = "pending"

\* C10: nothing keeps two screening runs of a job apart.  A run that starts
\* loads every pending application of the job, the ones a running call has
\* loaded among them; a commit stores its decision for an application whatever
\* status another run has stored for it since the load.
C10_RunsNotIsolated ==
    [][ \A r \in RunSlots :
          /\ \A q \in RunSlots, k \in { "screen", "workflow" } :
                ( /\ nreq' # nreq
                  /\ run[q].pc = "scoring"
                  /\ ScreenStart(r, k, run[q].job_id) ) =>
                  \A a \in Range(run[q].applications) :
                     StatusIn(applications, a) = "pending"
                       => a \in Range(run'[r].applications)
          /\ \A n \in TopNs :
                ( EndsScoring(r) /\ ScreenCommit(r, n) ) =>
                  \A a \in Range(run[r].applications) :
                     ( StatusIn(applications, a) # "pending"
                       /\ PlaceOf(run[r].applications, run[r].scores, a)
                            > ( IF n >= 0 THEN Min(n, Len(run[r].applications))
                                ELSE Max(Len(run[r].applications) + n, 0) ) )
                       => StatusIn(applications', a) = "rejected" ]_vars

\* Two runs have stored a status for the same application with no manual
\* update between them: one has shortlisted it and the other has rejected it,
\* and rejected is what is stored.
C10_Witness ==
    \E a \in DOMAIN applications :
       /\ screen_wrote[a] = { "shortlisted", "rejected" }
       /\ applications[a].status = "rejected"

\* C11: a screening run loads only applications of its job that are pending at
\* the load, and no step of its scoring phase, the commit included, changes an
\* application outside the batch it loaded.
C11_OnlyPendingOfJob ==
    [][ \A r \in RunSlots :
          /\ ( run[r].pc = "idle" /\ run'[r].pc = "scoring" ) =>
                \A a \in Range(run'[r].applications) :
                   /\ applications[a].jobId = run'[r].job_id
                   /\ applications[a].status = "pending"
          /\ ( run[r].pc = "scoring" /\ run'[r] # run[r] ) =>
                /\ Len(run'[r].scores) <= Len(run[r].applications)
                /\ \A i \in DOMAIN applications :
                      i \notin Range(run[r].applications) => applications'[i] = applications[i] ]_vars

\* A screen request has answered for the one pending application of its job,
\* which is rejected; a pending application of the other job was not loaded
\* and is still pending.
C11_Witness ==
    /\ last.op = "screen"
    /\ last.detail = "screened"
    /\ Len(last.apps) = 1
    /\ applications[last.apps[1]].status = "rejected"
    /\ \E i \in DOMAIN applications :
          /\ applications[i].jobId # last.job
          /\ applications[i].status = "pending"

(***************************************************************************)
(* Properties of the shortlist notification.                               *)
(***************************************************************************)
\* C12: a notify-shortlisted request for a job with shortlisted applications
\* is answered 200; every application of the job that was shortlisted is
\* round1_passed after it, one send was attempted for each of them and for no
\* other application, and the counts of sent and failed add up to their
\* number.  Step 2 of the workflow stores round1_passed for every application
\* it queried after one send for each, and the counts the workflow reports
\* add up to their number.
C12_NotifiedAllPassRound1 ==
    [][ /\ \A j \in Jobs :
              ( /\ nreq' # nreq
                /\ { i \in DOMAIN applications :
                       applications[i].jobId = j /\ applications[i].status = "shortlisted" } # {}
                /\ notify_shortlisted_candidates(j) ) =>
                LET S == { i \in DOMAIN applications :
                             applications[i].jobId = j /\ applications[i].status = "shortlisted" }
                IN  /\ last'.op = "notify" /\ last'.code = 200
                    /\ last'.sent + last'.failed = Cardinality(S)
                    /\ \A i \in DOMAIN applications :
                          IF i \in S
                            THEN /\ applications'[i].status = "round1_passed"
                                 /\ shortlist_mails'[i] = shortlist_mails[i] + 1
                            ELSE /\ applications'[i] = applications[i]
                                 /\ shortlist_mails'[i] = shortlist_mails[i]
        /\ \A r \in RunSlots :
              /\ ( run[r].pc = "notify" /\ run'[r].pc = "schedule" ) =>
                    /\ Len(run[r].sent) = Len(run[r].shortlisted_apps)
                    /\ \A a \in Range(run[r].shortlisted_apps) :
                          applications'[a].status = "round1_passed"
              /\ ( run[r].pc = "schedule" /\ run'[r].pc = "idle" /\ last' # last ) =>
                    last'.sent + last'.failed = Len(run[r].shortlisted_apps) ]_vars

\* A notify-shortlisted request has answered with no send succeeded and one
\* failed, and the application of its job that was sent to is round1_passed.
C12_Witness ==
    /\ last.op = "notify"
    /\ last.detail = "notified"
    /\ last.sent = 0
    /\ last.failed = 1
    /\ \E i \in DOMAIN applications :
          /\ applications[i].jobId = last.job
          /\ applications[i].status = "round1_passed"
          /\ shortlist_mails[i] = 1

(***************************************************************************)
(* Properties of the interview allocation.                                 *)
(***************************************************************************)
\* The bulk-schedule request in flight ends in this step.
EndsBulk == bulk.pc = "reset" /\ bulk'.pc = "idle"

\* Run r ends step 3 of the workflow in this step.
EndsWorkflow(r) == run[r].pc = "schedule" /\ run'[r].pc = "idle" /\ last' # last

\* The interviews this step has added, in the order of their creation.
Added == SubSeq(interviews', Len(interviews) + 1, Len(interviews'))

Disjoint(a, b) ==
    \/ a.scheduledAt + a.durationMinutes <= b.scheduledAt
    \/ b.scheduledAt + b.durationMinutes <= a.scheduledAt

OnePerCandidate(candidates) ==
    /\ Len(Added) = Cardinality(candidates)
    /\ { Added[i].applicationId : i \in DOMAIN Added } = candidates
    /\ \A i \in DOMAIN Added : Added[i].round = "round2" /\ Added[i].status = "scheduled"
    /\ \A a \in candidates : applications'[a].status = "round2_scheduled"

RateLimitError(reply) == reply.kind = "raise" /\ reply.text \in { Text429, TextQuota }

\* The call of analyze_cv_with_ai has returned.
Returned == scorer.program \in { "app", "simple" } /\ scorer.pc = "done"

\* C16: a call of analyze_cv_with_ai whose provider raises a rate-limit
\* error on the first two attempts and answers with JSON on the third
\* returns the parsed answer, after exactly 3 provider calls and a total
\* sleep of 35 * 1 + 35 * 2 seconds.
C16_RetryThenSuccess ==
    ( /\ Returned
      /\ Len(scorer.replies) = 3
      /\ RateLimitError(scorer.replies[1])
      /\ RateLimitError(scorer.replies[2])
      /\ scorer.replies[3].kind = "json" )
    => ( /\ scorer.result.score = scorer.replies[3].score
         /\ scorer.result.summary.kind = "provider"
         /\ scorer.calls = 3
         /\ scorer.slept = 35 * 1 + 35 * 2 )

\* Two rate-limit errors, then the score 75 on the third attempt.
C16_Witness ==
    /\ Returned
    /\ scorer.replies = << Reply("raise", Text429, NoMatch, 0),
                           Reply("raise", TextQuota, NoMatch, 0),
                           Reply("json", << >>, NoMatch, 75) >>
    /\ scorer.result.score = 75
    /\ scorer.slept = 105

\* The call of analyze_cv_with_ai is in progress.
InLoop == scorer.program \in { "app", "simple" } /\ scorer.pc \in { "calling", "sleeping" }

\* C17: analyze_cv_with_ai makes at most 3 provider calls for one CV and
\* every call of it returns; when all 3 attempts raise a rate-limit or quota
\* error it returns score 0 with the rate-limit summary.
C17_TerminatesWithinThreeCalls ==
    /\ [] ( scorer.program \in { "app", "simple" } => scorer.calls <= 3 )
    /\ [] ( ( /\ Returned
              /\ Len(scorer.replies) = 3
              /\ \A i \in 1..3 : RateLimitError(scorer.replies[i]) )
            => scorer.result = Result(0, Summary("rate_limit", << >>)) )
    /\ ( InLoop ~> Returned )

\* Three rate-limit errors: the call has returned after the third sleep.
C17_Witness ==
    /\ Returned
    /\ scorer.calls = 3
    /\ \A i \in 1..3 : RateLimitError(scorer.replies[i])
    /\ scorer.result.summary.kind = "rate_limit"
    /\ scorer.slept = 35 + 70 + 105

\* The reply is an error of the provider that reports no rate limit and no
\* quota: an exception of generate_content, or a response whose text cannot
\* be read.
OtherError(reply) == reply.kind \in { "raise", "no_text" } /\ reply.text \in { Text500, TextLong }

\* The seconds slept before attempt n of a call that has reached it.
SleptBefore(n) == IF n = 1 THEN 0 ELSE IF n = 2 THEN 35 ELSE 35 + 70

\* C18: on a provider error that is no rate-limit error a scorer returns at
\* once, with score 0 and the error text cut to 100 characters, without a
\* sleep and without another provider call.
C18_FailFast ==
    LET n == Len(scorer.replies)
    IN ( n > 0 /\ OtherError(scorer.replies[n]) )
       => ( /\ scorer.pc = "done"
            /\ scorer.result.score = 0
            /\ scorer.result.summary.text = Take(scorer.replies[n].text, 100)
            /\ scorer.calls = n
            /\ scorer.slept = SleptBefore(n) )

\* C19: every score a scorer returns lies in 0..100, whatever the provider
\* replies, the scores read out of an unparseable reply included.
C19_ScoreInRange ==
    scorer.pc = "done" => scorer.result.score \in 0..100

\* The job has no application in status pending.
NoPending(job_id) ==
    \A i \in DOMAIN applications :
       applications[i].jobId = job_id => StatusIn(applications, i) # "pending"

\* C20: a screen of a job that has no pending application answers with an
\* empty result as a success, begins no scoring pass (no extraction, no
\* provider call) and changes no application.
C20_NoPendingNoWork ==
    [][ \A j \in Jobs, r \in RunSlots, k \in { "screen", "workflow" } :
           ( nreq' # nreq /\ NoPending(j) /\ ScreenStart(r, k, j) )
           => ( /\ last'.op = k /\ last'.job = j /\ last'.code = 200
                /\ last'.apps = << >> /\ last'.top = << >>
                /\ run' = run
                /\ applications' = applications ) ]_vars

\* A screen has answered with the empty result for a job whose only
\* application is rejected.
C20_Witness ==
    /\ last.op = "screen"
    /\ last.code = 200
    /\ last.apps = << >>
    /\ last.detail = "no pending applications"
    /\ \E i \in DOMAIN applications :
          applications[i].jobId = last.job /\ StatusIn(applications, i) = "rejected"
    /\ NoPending(last.job)
    /\ \A r \in RunSlots : run[r].pc = "idle"

\* C21: for an empty CV text every scorer returns score 0 with its fixed
\* could-not-read summary, and makes no provider call.
C21_EmptyTextNoProviderCall ==
    /\ [][ \A p \in Programs :
              ScorerCall(p, "") =>
                 /\ scorer'.pc = "done"
                 /\ scorer'.result = Result(0, Summary("no_cv", << >>))
                 /\ scorer'.calls = 0 ]_vars
    /\ [] ( scorer.result.summary.kind = "no_cv" => scorer.calls = 0 /\ scorer.replies = << >> )

\* AIScreeningAgent.analyze_cv has answered a call without CV text.
C21_Witness ==
    /\ scorer.program = "agent"
    /\ scorer.pc = "done"
    /\ scorer.result.summary.kind = "no_cv"
    /\ scorer.result.score = 0
    /\ scorer.calls = 0

\* The step answers 404 and changes no table.
NotFoundAnswer ==
    /\ last'.code = 404
    /\ applications' = applications
    /\ interviews' = interviews

\* C22: every operation given the id of a job, an application or an
\* interview that does not exist answers 404 and changes no state: a
\* screen, a manual status update, and the scheduling, rescheduling and
\* completion of an interview.
C22_UnknownIdIsNotFound ==
    [][ nreq' # nreq =>
        /\ \A r \in RunSlots, j \in JobIds \ Jobs :
              ScreenStart(r, "screen", j) => NotFoundAnswer
        /\ \A a \in AppIds \ DOMAIN applications, st \in NewStatuses :
              update_application_status(a, st) => NotFoundAnswer
        /\ \A a \in AppIds \ DOMAIN applications, t \in StartTimes, d \in Durations :
              schedule_single_interview(a, t, d) => NotFoundAnswer
        /\ \A i \in InterviewIds \ DOMAIN interviews, t \in NewTimes :
              reschedule_interview(i, t) => NotFoundAnswer
        /\ \A i \in InterviewIds \ DOMAIN interviews, g \in Ratings, p \in BOOLEAN :
              ( g \in 1..5 /\ complete_interview(i, g, p) ) => NotFoundAnswer ]_vars

\* C23: an exception raised while a request runs the workflow, the
\* screening step included, is answered to the caller with a 500.
C23_WorkflowExceptionIs500 ==
    [][ \A r \in RunSlots, o \in ProviderOutcomes :
           ( /\ run[r].pc = "scoring"
             /\ run[r].kind = "workflow"
             /\ analyze_cv("cv", o).raised
             /\ Score(r, "cv", o) )
           => last'.code = 500 ]_vars

\* The eight statuses of an application.
Vocabulary ==
    { "pending", "screening", "shortlisted", "round1_passed",
      "round2_scheduled", "round2_completed", "hired", "rejected" }

\* C24: the manual update of an application that exists stores new_status
\* when it is one of the eight statuses, whatever the status was, and
\* touches no other application; for any other value it answers 400 and
\* changes no status.
C24_ManualUpdateAnyVocabularyValue ==
    [][ \A a \in DOMAIN applications, st \in NewStatuses :
           ( nreq' # nreq /\ update_application_status(a, st) )
           => IF st \in Vocabulary
                THEN /\ last'.code = 200
                     /\ StatusIn(applications', a) = st
                     /\ \A b \in DOMAIN applications :
                           b # a => applications'[b] = applications[b]
                ELSE /\ last'.code = 400
                     /\ applications' = applications ]_vars

\* A manual update has stored hired, a status no other operation writes,
\* for one of two stored applications.
C24_Witness ==
    /\ last.op = "update_status"
    /\ last.code = 200
    /\ \E a \in DOMAIN applications :
          StatusIn(applications, a) = "hired" /\ \E b \in DOMAIN applications : b # a

\* C25: run_ai_review sets an application of its top slice to shortlisted
\* only when the score of the application reaches the minimum score.
C25_ReviewShortlistsAboveMinimum ==
    [][ review.pc = "mailing" =>
          \A a \in DOMAIN applications :
             ( StatusIn(applications, a) # "shortlisted" /\ StatusIn(applications', a) = "shortlisted" )
             => ScoreOf(review.applications, review.scores, a) >= MINIMUM_MATCH_SCORE ]_vars

\* C26: when the reply of the provider is not JSON, analyze_cv_with_ai
\* returns the integer after the "score" key of the reply if there is one,
\* and otherwise 50 with the summary of a parse failure; it makes no further
\* provider call.
C26_SalvageOrFallback ==
    LET n == Len(scorer.replies)
    IN ( /\ scorer.program \in { "app", "simple" }
         /\ n > 0
         /\ scorer.replies[n].kind = "bad_json" )
       => ( /\ scorer.pc = "done"
            /\ scorer.calls = n
            /\ IF scorer.replies[n].salvage # NoMatch
                 THEN scorer.result.score = scorer.replies[n].salvage
                 ELSE /\ scorer.result.score = 50
                      /\ scorer.result.summary.kind = "unparsed" )

\* C27: for a top_n of at least 0, a screen_applications call whose batch is
\* still pending at its commit shortlists at most top_n applications and
\* returns min(top_n, size of the batch) applications; the applications
\* returned and the applications rejected are disjoint, and together they
\* are the batch.
C27_TopSliceAndRejectedPartition ==
    [][ \A r \in RunSlots, n \in TopNs :
           ( /\ EndsScoring(r)
             /\ n >= 0
             /\ run[r].kind = "screen"
             /\ \A a \in Range(run[r].applications) : StatusIn(applications, a) = "pending"
             /\ ScreenCommit(r, n) )
           => LET batch == Range(run[r].applications)
                  top == Range(last'.top)
                  rejected == { a \in batch : StatusIn(applications', a) = "rejected" }
                  shortlisted == { a \in batch : StatusIn(applications', a) = "shortlisted" }
              IN  /\ Cardinality(shortlisted) <= n
                  /\ Len(last'.top) = ( IF n < Len(run[r].applications)
                                          THEN n ELSE Len(run[r].applications) )
                  /\ Cardinality(top) = Len(last'.top)
                  /\ top \cap rejected = {}
                  /\ top \cup rejected = batch ]_vars

\* A screen of two applications with top_n = 1 has returned the one that
\* scored higher, shortlisted, and has rejected the other.
C27_Witness ==
    /\ last.op = "screen"
    /\ last.detail = "screened"
    /\ Len(last.apps) = 2
    /\ Len(last.top) = 1
    /\ last.scores[1] # last.scores[2]
    /\ StatusIn(applications, last.top[1]) = "shortlisted"
    /\ \E a \in Range(last.apps) : a # last.top[1] /\ StatusIn(applications, a) = "rejected"

InterviewsOf(a) == { k \in DOMAIN interviews : interviews[k].applicationId = a }

\* C29: over workflow and bulk-schedule requests run one at a time, without
\* manual status update and without single scheduling, each application
\* gets at most one Round-2 interview.
C29_OneRound2InterviewPerApplication ==
    \A a \in DOMAIN applications : Cardinality(InterviewsOf(a)) <= 1

\* Two allocation calls, one after the other, have given two applications
\* one interview each, both at the start time of their call.
C29_Witness ==
    /\ Len(interviews) = 2
    /\ interviews[1].applicationId # interviews[2].applicationId
    /\ interviews[1].scheduledAt = interviews[2].scheduledAt
    /\ \A a \in DOMAIN applications : StatusIn(applications, a) = "round2_scheduled"
    /\ NoneInFlight

\* C30: a workflow request for a job without pending application returns
\* with an empty list of steps; it sends no email, creates no interview and
\* changes no status, also when the job has shortlisted applications that
\* were never notified.
C30_WorkflowWithoutPendingDoesNothing ==
    [][ \A j \in Jobs :
           ( nreq' # nreq /\ NoPending(j) /\ ScreenStart(1, "workflow", j) )
           => ( /\ last'.op = "workflow" /\ last'.job = j /\ last'.code = 200
                /\ last'.sent = 0 /\ last'.failed = 0
                /\ run' = run
                /\ shortlist_mails' = shortlist_mails
                /\ interviews' = interviews
                /\ applications' = applications ) ]_vars

\* The workflow has returned at once for a job whose only application is
\* shortlisted and was never notified.
C30_Witness ==
    /\ last.op = "workflow"
    /\ last.detail = "no pending applications"
    /\ NoneInFlight
    /\ interviews = << >>
    /\ \E a \in DOMAIN applications :
          /\ applications[a].jobId = last.job
          /\ StatusIn(applications, a) = "shortlisted"
          /\ shortlist_mails[a] = 0
    /\ NoPending(last.job)
=============================================================================
